---------------------------- MODULE Spec2Model ----------------------------
(***************************************************************************)
(* Model of morningstar-rs, src/src/prostar_mppt.rs: the register codec,   *)
(* Settings::validate and the Connection operations (stats, read_settings, *)
(* write_setting / write_settings) over a Modbus transport that can fail   *)
(* or answer with a wrong number of registers.                             *)
(*                                                                         *)
(* Numbers.  A u16 is a natural below 65536.  An f32 is the record of its  *)
(* three IEEE-754 bit fields [s, e, m] (1, 8 and 23 bits); an f16 is the   *)
(* u16 of its bits, as the code holds it.  A u32 built from two registers  *)
(* is the set of its set bit positions 0..31.                              *)
(*                                                                         *)
(* Quantities.  The uom crate is not part of the repository.  A quantity   *)
(* is held as the f32 read by the accessor the code uses for the field:    *)
(* volt, ampere, ohm, degree Celsius, and second for every Time; day and   *)
(* minute are 86400 and 60 seconds.  The sampled values are ones on which  *)
(* these unit conversions are exact.                                       *)
(***************************************************************************)
EXTENDS Integers, Sequences, FiniteSets, TLC

\* ------------------------------------------------------------------
\* Integer helpers

\* 2^n for n in 0..30 (1 for a negative n)
Pow2Table == <<1, 2, 4, 8, 16, 32, 64, 128, 256, 512, 1024, 2048, 4096, 8192,
               16384, 32768, 65536, 131072, 262144, 524288, 1048576, 2097152,
               4194304, 8388608, 16777216, 33554432, 67108864, 134217728,
               268435456, 536870912, 1073741824>>
Pow2(n) == IF n <= 0 THEN 1 ELSE Pow2Table[n + 1]

\* floor(log2 n) for n >= 1
Log2(n) == CHOOSE p \in 0..30 : Pow2(p) <= n /\ (p = 30 \/ n < Pow2(p + 1))

\* bit i of the natural n
Bit(n, i) == (n \div Pow2(i)) % 2

\* the set bit positions of a u16
Bits16(u) == {i \in 0..15 : Bit(u, i) = 1}

\* the u16 whose set bit positions are the members of S below 16
RECURSIVE BitsValue(_)
BitsValue(S) ==
    IF S = {} THEN 0
    ELSE LET i == CHOOSE j \in S : TRUE IN Pow2(i) + BitsValue(S \ {i})

\* ------------------------------------------------------------------
\* f32 as its bit fields

F32(s, e, m) == [s |-> s, e |-> e, m |-> m]

IsNaN(f) == f.e = 255 /\ f.m # 0
IsInf(f) == f.e = 255 /\ f.m = 0
IsZero(f) == f.e = 0 /\ f.m = 0

\* significand and exponent of a finite f32: value = Sig * 2^(Exp - 150)
Sig(f) == IF f.e = 0 THEN f.m ELSE 8388608 + f.m
Exp(f) == IF f.e = 0 THEN 1 ELSE f.e

\* magnitude order key of a non-NaN f32: the 31 low bits
Mag(f) == f.e * 8388608 + f.m

\* f32 `<` : false when either side is NaN, -0 = +0
F32Lt(a, b) ==
    /\ ~IsNaN(a)
    /\ ~IsNaN(b)
    /\ ~(IsZero(a) /\ IsZero(b))
    /\ IF a.s # b.s THEN a.s = 1
       ELSE IF a.s = 0 THEN Mag(a) < Mag(b) ELSE Mag(a) > Mag(b)

F32Gt(a, b) == F32Lt(b, a)

\* the f32 of sign s whose significand, after rounding, is k at the biased
\* exponent e0 (e0 < 1: a subnormal, k counted in units of 2^-149); a carry
\* out of the significand moves to the next exponent, and past 254 to infinity
PackSig(s, e0, k) ==
    IF e0 >= 1
    THEN IF k >= 16777216
         THEN (IF e0 + 1 >= 255 THEN F32(s, 255, 0) ELSE F32(s, e0 + 1, 0))
         ELSE (IF e0 >= 255 THEN F32(s, 255, 0) ELSE F32(s, e0, k - 8388608))
    ELSE IF k >= 8388608 THEN F32(s, 1, k - 8388608) ELSE F32(s, 0, k)

\* round to nearest, ties to even: kept is the significand cut, rem the bits
\* cut off and half the weight of the highest of them
RoundUp(s, e0, kept, rem, half) ==
    PackSig(s, e0, IF rem > half \/ (rem = half /\ kept % 2 = 1)
                   THEN kept + 1 ELSE kept)

\* drop is the number of low bits of r that do not fit the significand
RoundDrop(s, r, e0, drop) ==
    IF drop <= 0 THEN PackSig(s, e0, r * Pow2(-drop))
    ELSE IF drop > 31 THEN PackSig(s, e0, 0)
    ELSE IF drop = 31 THEN PackSig(s, e0, IF r > 1073741824 THEN 1 ELSE 0)
    ELSE RoundUp(s, e0, r \div Pow2(drop), r % Pow2(drop), Pow2(drop - 1))

\* p is the position of r's highest bit; 24 bits remain for a normal result,
\* the bits down to 2^-149 for a subnormal one
RoundAt(s, r, x, p) ==
    RoundDrop(s, r, x + p + 127, IF x + p + 127 >= 1 THEN p - 23 ELSE (-149) - x)

\* round the natural r * 2^x (r >= 1) to the nearest f32, ties to even;
\* x is the power of two of r's lowest bit
RoundPack(s, r, x) == RoundAt(s, r, x, Log2(r))

\* `n as f32` for a natural n
F32FromNat(n) == IF n = 0 THEN F32(0, 0, 0) ELSE RoundPack(0, n, 0)

\* `i as f32` for an integer i
F32FromInt(i) == IF i >= 0 THEN F32FromNat(i) ELSE RoundPack(1, -i, 0)

\* the f32 n / 2^k, for a literal such as 17.5 = 35 / 2
F32Dyadic(n, k) ==
    IF n = 0 THEN F32(0, 0, 0)
    ELSE IF n > 0 THEN RoundPack(0, n, -k) ELSE RoundPack(1, -n, -k)

\* the integer part of a finite f32's magnitude, saturated at cap
TruncMag(f, cap) ==
    IF f.e < 127 THEN 0
    ELSE IF f.e - 150 >= 0
         THEN (IF f.e - 150 > 7 THEN cap
               ELSE LET v == Sig(f) * Pow2(f.e - 150) IN IF v > cap THEN cap ELSE v)
         ELSE LET v == Sig(f) \div Pow2(150 - f.e) IN IF v > cap THEN cap ELSE v

\* Rust `f as u16`: NaN is 0, truncation toward zero, saturation
AsU16(f) ==
    IF IsNaN(f) THEN 0
    ELSE IF f.s = 1 THEN 0
    ELSE TruncMag(f, 65535)

\* Rust `f as i16`: NaN is 0, truncation toward zero, saturation
AsI16(f) ==
    IF IsNaN(f) THEN 0
    ELSE IF f.s = 1 THEN -TruncMag(f, 32768)
    ELSE TruncMag(f, 32767)

\* the quotient f / d of a finite f32 by a natural d >= 1, correctly rounded:
\* long division of the significand, 26 quotient bits and a sticky bit
RECURSIVE DivBits(_, _, _, _)
DivBits(q, r, d, n) ==
    IF n = 0 THEN [q |-> q, r |-> r]
    ELSE IF 2 * r >= d THEN DivBits(2 * q + 1, 2 * r - d, d, n - 1)
         ELSE DivBits(2 * q, 2 * r, d, n - 1)

DivRound(s, res, x) ==
    RoundPack(s, 2 * res.q + (IF res.r # 0 THEN 1 ELSE 0), x)

\* q0 and r0 are the quotient and remainder of the significand, nb the
\* number of further quotient bits; a sticky bit stands for what remains
DivFrom(f, d, q0, r0, nb) ==
    DivRound(f.s, DivBits(q0, r0, d, nb), Exp(f) - 150 - nb - 1)

DivStart(f, d, q0) ==
    DivFrom(f, d, q0, Sig(f) % d, IF q0 = 0 THEN 26 ELSE 26 - Log2(q0))

F32DivNat(f, d) ==
    IF f.e = 255 \/ IsZero(f) THEN f ELSE DivStart(f, d, Sig(f) \div d)

\* the product f * k of a finite f32 by a natural k >= 1 whose odd part is
\* below 1024, correctly rounded; a product too wide for 31 bits is formed
\* in two halves and cut to its high bits and a sticky bit
RECURSIVE OddPart(_)
OddPart(k) == IF k % 2 = 0 THEN OddPart(k \div 2) ELSE k

RECURSIVE TwoPart(_)
TwoPart(k) == IF k % 2 = 0 THEN 1 + TwoPart(k \div 2) ELSE 0

\* the wide product ph * 4096 + pl, cut to its high bits and a sticky bit
MulWide(s, ph, pl, x) ==
    RoundPack(s, 2 * (ph * 64 + pl \div 64) + (IF pl % 64 # 0 THEN 1 ELSE 0), x + 5)

MulHalves(s, pa, pb, x) == MulWide(s, pa + pb \div 4096, pb % 4096, x)

MulOdd(s, sg, ko, x) ==
    IF sg <= 2147483647 \div ko THEN RoundPack(s, sg * ko, x)
    ELSE MulHalves(s, (sg \div 4096) * ko, (sg % 4096) * ko, x)

F32MulNat(f, k) ==
    IF f.e = 255 \/ IsZero(f) THEN f
    ELSE MulOdd(f.s, Sig(f), OddPart(k), Exp(f) - 150 + TwoPart(k))

\* ------------------------------------------------------------------
\* f16 <-> f32 (half crate: f16::from_bits(u).to_f32(), f16::from_f32(v).to_bits())

\* widening is exact; a NaN keeps its payload, shifted
F16ToF32(u) ==
    LET hs == u \div 32768
        he == (u \div 1024) % 32
        hm == u % 1024
    IN IF he = 0 /\ hm = 0 THEN F32(hs, 0, 0)
       ELSE IF he = 31 THEN (IF hm = 0 THEN F32(hs, 255, 0)
                             ELSE F32(hs, 255, hm * 8192 + (IF hm >= 512 THEN 0 ELSE 4194304)))
       ELSE IF he = 0
            THEN LET p == Log2(hm)
                 IN F32(hs, 103 + p, (hm * Pow2(23 - p)) % 8388608)
       ELSE F32(hs, he + 112, hm * 8192)

\* narrowing rounds to nearest, ties to even; overflow is an infinity,
\* underflow a signed zero, a NaN stays a NaN
F16FromF32(f) ==
    LET hs  == f.s * 32768
        hx  == f.e - 112
    IN IF f.e = 255
       THEN LET pay == f.m \div 8192
            IN hs + 31744 + (IF f.m = 0 THEN 0
                             ELSE IF pay >= 512 THEN pay ELSE pay + 512)
       ELSE IF hx >= 31 THEN hs + 31744
       ELSE IF hx <= 0
            THEN IF 14 - hx > 24 THEN hs
                 ELSE LET man == f.m + 8388608
                          hman == man \div Pow2(14 - hx)
                          rb == Pow2(13 - hx)
                          up == (man \div rb) % 2 = 1
                                /\ ((man % rb # 0) \/ hman % 2 = 1)
                      IN hs + hman + (IF up THEN 1 ELSE 0)
       ELSE LET hman == f.m \div 8192
                up == (f.m \div 4096) % 2 = 1
                      /\ ((f.m % 4096 # 0) \/ hman % 2 = 1)
            IN hs + hx * 1024 + hman + (IF up THEN 1 ELSE 0)

\* fn gf32, lines 42-49: a NaN register reads as 0.0
gf32(u) ==
    LET v == F16ToF32(u)
    IN IF IsNaN(v) THEN F32(0, 0, 0) ELSE v

\* fn to_v / to_a / to_om: the quantity's f32 narrowed to f16 bits
to_v(q) == F16FromF32(q)
to_a(q) == F16FromF32(q)
to_om(q) == F16FromF32(q)

\* fn v / a / om / c / sec: the quantity of an f32 in the accessor's own unit
v(u) == u
a(u) == u
om(u) == u
c(u) == u
sec(u) == u

\* the seconds of the quantity, in place of its minutes
to_mnSeconds(q) == AsU16(q)

\* fn to_sec / to_dy / to_mn: `get::<unit>() as u16`
to_sec(q) == AsU16(q)
to_dy(q) == AsU16(F32DivNat(q, 86400))
to_mn(q) == AsU16(F32DivNat(q, 60))

\* fn to_ic: degrees Celsius `as i16`, transmuted to u16 (two's complement)
to_ic(q) == LET i == AsI16(q) IN IF i < 0 THEN i + 65536 ELSE i

\* the register read as an unsigned integer
icUnsigned(u) == F32FromInt(u)

\* fn ic: the register transmuted to i16, `as f32`
ic(u) == F32FromInt(IF u >= 32768 THEN u - 65536 ELSE u)

\* fn dy / mn: the Time of an f32 of days or minutes, in seconds
dy(u) == F32MulNat(u, 86400)
mn(u) == F32MulNat(u, 60)

\* fn gu32, lines 39-41: (h << 16) | l, as the set of its set bits
gu32(h, l) == Bits16(l) \cup {i + 16 : i \in Bits16(h)}

\* ------------------------------------------------------------------
\* The settings block

\* const SETTINGS_BASE (0xE000) and SETTINGS_END (0xE038)
SETTINGS_BASE == 57344
SETTINGS_END == 57400

\* struct Settings, lines 462-498: the fields in declaration order
SettingsFields == <<
    "regulation_voltage",
    "float_voltage",
    "time_before_float",
    "time_before_float_low_battery",
    "float_low_battery_voltage_trigger",
    "float_cancel_voltage",
    "exit_float_time",
    "equalize_voltage",
    "days_between_equalize_cycles",
    "equalize_time_limit_above_regulation_voltage",
    "equalize_time_limit_at_regulation_voltage",
    "alarm_on_setting_change",
    "reference_charge_voltage_limit",
    "battery_charge_current_limit",
    "temperature_compensation_coefficent",
    "high_voltage_disconnect",
    "high_voltage_reconnect",
    "maximum_charge_voltage_reference",
    "max_battery_temp_compensation_limit",
    "min_battery_temp_compensation_limit",
    "load_low_voltage_disconnect",
    "load_low_voltage_reconnect",
    "load_high_voltage_disconnect",
    "load_high_voltage_reconnect",
    "lvd_load_current_compensation",
    "lvd_warning_timeout",
    "led_green_to_green_and_yellow_limit",
    "led_green_and_yellow_to_yellow_limit",
    "led_yellow_to_yellow_and_red_limit",
    "led_yellow_and_red_to_red_flashing_limit",
    "modbus_id",
    "meterbus_id",
    "mppt_fixed_vmp",
    "mppt_fixed_vmp_percent",
    "charge_current_limit" >>

NFields == Len(SettingsFields)

\* the literals of validate, as f32
F0 == F32(0, 0, 0)
F1 == F32FromNat(1)
F17_5 == F32Dyadic(35, 1)
F40 == F32FromNat(40)
F120 == F32FromNat(120)
F255 == F32FromNat(255)
F10000 == F32FromNat(10000)
F65535 == F32FromNat(65535)

\* Settings::validate, lines 552-594: the checks in source order; each one
\* compares the field with unit(min) and unit(max), or the u8 with its bounds
ValidateChecks == <<
    [field |-> "regulation_voltage", kind |-> "f32",
     min |-> v(F0), max |-> v(F17_5), text |-> "regulation_voltage 0 <= x <= 17.5"],
    [field |-> "float_voltage", kind |-> "f32",
     min |-> v(F0), max |-> v(F17_5), text |-> "float_voltage 0 <= x <= 17.5"],
    [field |-> "time_before_float", kind |-> "f32",
     min |-> sec(F0), max |-> sec(F65535), text |-> "time_before_float 0 <= x <= 65535"],
    [field |-> "time_before_float_low_battery", kind |-> "f32",
     min |-> sec(F0), max |-> sec(F65535), text |-> "time_before_float_low_battery 0 <= x <= 65535"],
    [field |-> "float_low_battery_voltage_trigger", kind |-> "f32",
     min |-> v(F0), max |-> v(F17_5), text |-> "float_low_battery_voltage_trigger 0 <= x <= 17.5"],
    [field |-> "float_cancel_voltage", kind |-> "f32",
     min |-> v(F0), max |-> v(F17_5), text |-> "float_cancel_voltage 0 <= x <= 17.5"],
    [field |-> "exit_float_time", kind |-> "f32",
     min |-> sec(F0), max |-> sec(F65535), text |-> "exit_float_time 0 <= x <= 65535"],
    [field |-> "equalize_voltage", kind |-> "f32",
     min |-> v(F0), max |-> v(F17_5), text |-> "equalize_voltage 0 <= x <= 17.5"],
    [field |-> "days_between_equalize_cycles", kind |-> "f32",
     min |-> dy(F0), max |-> dy(F255), text |-> "days_between_equalize_cycles 0 <= x <= 255"],
    [field |-> "equalize_time_limit_above_regulation_voltage", kind |-> "f32",
     min |-> sec(F0), max |-> sec(F65535), text |-> "equalize_time_limit_above_regulation_voltage 0 <= x <= 65535"],
    [field |-> "equalize_time_limit_at_regulation_voltage", kind |-> "f32",
     min |-> sec(F0), max |-> sec(F65535), text |-> "equalize_time_limit_at_regulation_voltage 0 <= x <= 65535"],
    [field |-> "reference_charge_voltage_limit", kind |-> "f32",
     min |-> v(F0), max |-> v(F17_5), text |-> "reference_charge_voltage_limit 0 <= x <= 17.5"],
    [field |-> "battery_charge_current_limit", kind |-> "f32",
     min |-> a(F0), max |-> a(F40), text |-> "battery_charge_current_limit 0 <= x <= 40"],
    [field |-> "temperature_compensation_coefficent", kind |-> "f32",
     min |-> v(F0), max |-> v(F17_5), text |-> "temperature_compensation_coefficent 0 <= x <= 17.5"],
    [field |-> "high_voltage_disconnect", kind |-> "f32",
     min |-> v(F0), max |-> v(F17_5), text |-> "high_voltage_disconnect 0 <= x <= 17.5"],
    [field |-> "high_voltage_reconnect", kind |-> "f32",
     min |-> v(F0), max |-> v(F17_5), text |-> "high_voltage_reconnect 0 <= x <= 17.5"],
    [field |-> "maximum_charge_voltage_reference", kind |-> "f32",
     min |-> v(F0), max |-> v(F17_5), text |-> "maximum_charge_voltage_reference 0 <= x <= 17.5"],
    [field |-> "max_battery_temp_compensation_limit", kind |-> "f32",
     min |-> c(F32FromInt(-128)), max |-> c(F32FromInt(127)), text |-> "max_battery_temp_compensation_limit -128 <= x <= 127"],
    [field |-> "min_battery_temp_compensation_limit", kind |-> "f32",
     min |-> c(F32FromInt(-128)), max |-> c(F32FromInt(127)), text |-> "min_battery_temp_compensation_limit -128 <= x <= 127"],
    [field |-> "load_low_voltage_disconnect", kind |-> "f32",
     min |-> v(F0), max |-> v(F17_5), text |-> "load_low_voltage_disconnect 0 <= x <= 17.5"],
    [field |-> "load_low_voltage_reconnect", kind |-> "f32",
     min |-> v(F0), max |-> v(F17_5), text |-> "load_low_voltage_reconnect 0 <= x <= 17.5"],
    [field |-> "load_high_voltage_disconnect", kind |-> "f32",
     min |-> v(F0), max |-> v(F17_5), text |-> "load_high_voltage_disconnect 0 <= x <= 17.5"],
    [field |-> "load_high_voltage_reconnect", kind |-> "f32",
     min |-> v(F0), max |-> v(F17_5), text |-> "load_high_voltage_reconnect 0 <= x <= 17.5"],
    [field |-> "lvd_load_current_compensation", kind |-> "f32",
     min |-> om(F0), max |-> om(F10000), text |-> "lvd_load_current_compensation 0 <= x <= 10000"],
    [field |-> "lvd_warning_timeout", kind |-> "f32",
     min |-> sec(F0), max |-> sec(F65535), text |-> "lvd_warning_timeout 0 <= x <= 65535"],
    [field |-> "led_green_to_green_and_yellow_limit", kind |-> "f32",
     min |-> v(F0), max |-> v(F17_5), text |-> "led_green_to_green_and_yellow_limit 0 <= x <= 17.5"],
    [field |-> "led_green_and_yellow_to_yellow_limit", kind |-> "f32",
     min |-> v(F0), max |-> v(F17_5), text |-> "led_green_and_yellow_to_yellow_limit 0 <= x <= 17.5"],
    [field |-> "led_yellow_to_yellow_and_red_limit", kind |-> "f32",
     min |-> v(F0), max |-> v(F17_5), text |-> "led_yellow_to_yellow_and_red_limit 0 <= x <= 17.5"],
    [field |-> "led_yellow_and_red_to_red_flashing_limit", kind |-> "f32",
     min |-> v(F0), max |-> v(F17_5), text |-> "led_yellow_and_red_to_red_flashing_limit 0 <= x <= 17.5"],
    [field |-> "modbus_id", kind |-> "u8",
     min |-> 1, max |-> 247, text |-> "modbus_id 1 <= x <= 247"],
    [field |-> "meterbus_id", kind |-> "u8",
     min |-> 1, max |-> 15, text |-> "meterbus_id 1 <= x <= 15"],
    [field |-> "mppt_fixed_vmp", kind |-> "f32",
     min |-> v(F0), max |-> v(F120), text |-> "mppt_fixed_vmp 0 <= x <= 120"],
    [field |-> "mppt_fixed_vmp_percent", kind |-> "f32",
     min |-> F0, max |-> F1, text |-> "mppt_fixed_vmp_percent 0 <= x <= 1"],
    [field |-> "charge_current_limit", kind |-> "f32",
     min |-> a(F0), max |-> a(F40), text |-> "charge_current_limit 0 <= x <= 40"] >>

\* a check that rejects the bounds themselves
OutOfRangeAtBound(s, ck) ==
    IF ck.kind = "u8"
    THEN s[ck.field] <= ck.min \/ s[ck.field] >= ck.max
    ELSE ~F32Gt(s[ck.field], ck.min) \/ ~F32Lt(s[ck.field], ck.max)

\* macro validate!, lines 500-506: `x < min || x > max`; the comparisons of
\* f32 are false on a NaN
OutOfRange(s, ck) ==
    IF ck.kind = "u8"
    THEN s[ck.field] < ck.min \/ s[ck.field] > ck.max
    ELSE F32Lt(s[ck.field], ck.min) \/ F32Gt(s[ck.field], ck.max)

\* Settings::validate: Ok, or the bail! of the first check that fails
FirstBad(bad) ==
    IF bad = {} THEN [ok |-> TRUE, err |-> ""]
    ELSE [ok |-> FALSE,
          err |-> ValidateChecks[CHOOSE j \in bad : \A k \in bad : j <= k].text]

validate(s) ==
    FirstBad({i \in 1..Len(ValidateChecks) : OutOfRange(s, ValidateChecks[i])})

\* write_settings, lines 839-943: the write_setting calls in source order,
\* each with its register address and the field it encodes
WriteSeq == <<
    [addr |-> 57344, field |-> "regulation_voltage", enc |-> "v"],
    [addr |-> 57345, field |-> "float_voltage", enc |-> "v"],
    [addr |-> 57346, field |-> "time_before_float", enc |-> "sec"],
    [addr |-> 57347, field |-> "time_before_float_low_battery", enc |-> "sec"],
    [addr |-> 57348, field |-> "float_low_battery_voltage_trigger", enc |-> "v"],
    [addr |-> 57349, field |-> "float_cancel_voltage", enc |-> "v"],
    [addr |-> 57350, field |-> "exit_float_time", enc |-> "sec"],
    [addr |-> 57351, field |-> "equalize_voltage", enc |-> "v"],
    [addr |-> 57352, field |-> "days_between_equalize_cycles", enc |-> "dy"],
    [addr |-> 57353, field |-> "equalize_time_limit_above_regulation_voltage", enc |-> "sec"],
    [addr |-> 57354, field |-> "equalize_time_limit_at_regulation_voltage", enc |-> "sec"],
    [addr |-> 57357, field |-> "alarm_on_setting_change", enc |-> "bool"],
    [addr |-> 57360, field |-> "reference_charge_voltage_limit", enc |-> "v"],
    [addr |-> 57363, field |-> "battery_charge_current_limit", enc |-> "a"],
    [addr |-> 57370, field |-> "temperature_compensation_coefficent", enc |-> "v"],
    [addr |-> 57371, field |-> "high_voltage_disconnect", enc |-> "v"],
    [addr |-> 57372, field |-> "high_voltage_reconnect", enc |-> "v"],
    [addr |-> 57373, field |-> "maximum_charge_voltage_reference", enc |-> "v"],
    [addr |-> 57374, field |-> "max_battery_temp_compensation_limit", enc |-> "ic"],
    [addr |-> 57375, field |-> "min_battery_temp_compensation_limit", enc |-> "ic"],
    [addr |-> 57378, field |-> "load_low_voltage_disconnect", enc |-> "v"],
    [addr |-> 57379, field |-> "load_low_voltage_reconnect", enc |-> "v"],
    [addr |-> 57380, field |-> "load_high_voltage_disconnect", enc |-> "v"],
    [addr |-> 57381, field |-> "load_high_voltage_reconnect", enc |-> "v"],
    [addr |-> 57382, field |-> "lvd_load_current_compensation", enc |-> "om"],
    [addr |-> 57383, field |-> "lvd_warning_timeout", enc |-> "mn"],
    [addr |-> 57392, field |-> "led_green_to_green_and_yellow_limit", enc |-> "v"],
    [addr |-> 57393, field |-> "led_green_and_yellow_to_yellow_limit", enc |-> "v"],
    [addr |-> 57394, field |-> "led_yellow_to_yellow_and_red_limit", enc |-> "v"],
    [addr |-> 57395, field |-> "led_yellow_and_red_to_red_flashing_limit", enc |-> "v"],
    [addr |-> 57396, field |-> "modbus_id", enc |-> "u8"],
    [addr |-> 57397, field |-> "meterbus_id", enc |-> "u8"],
    [addr |-> 57398, field |-> "mppt_fixed_vmp", enc |-> "v"],
    [addr |-> 57399, field |-> "mppt_fixed_vmp_percent", enc |-> "pct"],
    [addr |-> 57400, field |-> "charge_current_limit", enc |-> "a"] >>

\* the contiguous addresses from SETTINGS_BASE, in place of the literals
WriteAddrDense(i) == SETTINGS_BASE + i - 1

\* the `addr` argument of the i-th write_setting call of write_settings
WriteAddr(i) == WriteSeq[i].addr

\* line 816: the context of a failed write_single_register; it is the same
\* literal for every address
WriteContext(addr) == "write_setting failed to write to register"

\* the `new` argument of the i-th write_setting call of write_settings
Encode(enc, x) ==
    CASE enc = "v" -> to_v(x)
      [] enc = "a" -> to_a(x)
      [] enc = "om" -> to_om(x)
      [] enc = "sec" -> to_sec(x)
      [] enc = "dy" -> to_dy(x)
      [] enc = "mn" -> to_mn(x)
      [] enc = "ic" -> to_ic(x)
      [] enc = "bool" -> (IF x THEN 1 ELSE 0)
      [] enc = "u8" -> x
      [] enc = "pct" -> F16FromF32(x)

WriteNew(s, i) == Encode(WriteSeq[i].enc, s[WriteSeq[i].field])

\* read_settings, lines 763-805: the Settings decoded from the block raw,
\* a sequence indexed from 1 (raw[k + 1] is the code's raw[k])
At(raw, addr) == raw[addr - SETTINGS_BASE + 1]

DecodeSettings(raw) == [
    regulation_voltage |-> v(gf32(At(raw, 57344))),
    float_voltage |-> v(gf32(At(raw, 57345))),
    time_before_float |-> sec(F32FromNat(At(raw, 57346))),
    time_before_float_low_battery |-> sec(F32FromNat(At(raw, 57347))),
    float_low_battery_voltage_trigger |-> v(gf32(At(raw, 57348))),
    float_cancel_voltage |-> v(gf32(At(raw, 57349))),
    exit_float_time |-> sec(F32FromNat(At(raw, 57350))),
    equalize_voltage |-> v(gf32(At(raw, 57351))),
    days_between_equalize_cycles |-> dy(F32FromNat(At(raw, 57352))),
    equalize_time_limit_above_regulation_voltage |-> sec(F32FromNat(At(raw, 57353))),
    equalize_time_limit_at_regulation_voltage |-> sec(F32FromNat(At(raw, 57354))),
    alarm_on_setting_change |-> (At(raw, 57357) = 1),
    reference_charge_voltage_limit |-> v(gf32(At(raw, 57360))),
    battery_charge_current_limit |-> a(gf32(At(raw, 57363))),
    temperature_compensation_coefficent |-> v(gf32(At(raw, 57370))),
    high_voltage_disconnect |-> v(gf32(At(raw, 57371))),
    high_voltage_reconnect |-> v(gf32(At(raw, 57372))),
    maximum_charge_voltage_reference |-> v(gf32(At(raw, 57373))),
    max_battery_temp_compensation_limit |-> ic(At(raw, 57374)),
    min_battery_temp_compensation_limit |-> ic(At(raw, 57375)),
    load_low_voltage_disconnect |-> v(gf32(At(raw, 57378))),
    load_low_voltage_reconnect |-> v(gf32(At(raw, 57379))),
    load_high_voltage_disconnect |-> v(gf32(At(raw, 57380))),
    load_high_voltage_reconnect |-> v(gf32(At(raw, 57381))),
    lvd_load_current_compensation |-> om(gf32(At(raw, 57382))),
    lvd_warning_timeout |-> mn(F32FromNat(At(raw, 57383))),
    led_green_to_green_and_yellow_limit |-> v(gf32(At(raw, 57392))),
    led_green_and_yellow_to_yellow_limit |-> v(gf32(At(raw, 57393))),
    led_yellow_to_yellow_and_red_limit |-> v(gf32(At(raw, 57394))),
    led_yellow_and_red_to_red_flashing_limit |-> v(gf32(At(raw, 57395))),
    modbus_id |-> At(raw, 57396) % 256,
    meterbus_id |-> At(raw, 57397) % 256,
    mppt_fixed_vmp |-> v(gf32(At(raw, 57398))),
    mppt_fixed_vmp_percent |-> gf32(At(raw, 57399)),
    charge_current_limit |-> a(gf32(At(raw, 57400))) ]

\* ------------------------------------------------------------------
\* Coils

\* enum Coil, lines 598-613
Coils == {
    "EqualizeTriggered", "LoadDisconnect", "ChargeDisconnect",
    "ClearAhResettable", "ClearAhTotal", "ClearKwhResettable",
    "ClearFaults", "ClearAlarms", "ForceEEPROMUpdate", "ClearKwhTotal",
    "ClearVbMinMax", "LightingModeTest", "FactoryReset", "ResetControl" }

\* every coil at the address of the first
addressZero(coil) == 0

\* Coil::address, lines 615-634
address(coil) ==
    CASE coil = "EqualizeTriggered" -> 0
      [] coil = "LoadDisconnect" -> 1
      [] coil = "ChargeDisconnect" -> 2
      [] coil = "ClearAhResettable" -> 16
      [] coil = "ClearAhTotal" -> 17
      [] coil = "ClearKwhResettable" -> 18
      [] coil = "ClearFaults" -> 20
      [] coil = "ClearAlarms" -> 21
      [] coil = "ForceEEPROMUpdate" -> 22
      [] coil = "ClearKwhTotal" -> 24
      [] coil = "ClearVbMinMax" -> 25
      [] coil = "LightingModeTest" -> 32
      [] coil = "FactoryReset" -> 254
      [] coil = "ResetControl" -> 255

\* the coils of the device, all off
CoilAddrs == {address(coil) : coil \in Coils}
CoilsOff == [ad \in CoilAddrs |-> FALSE]

\* ------------------------------------------------------------------
\* Enumerations and bit sets of the telemetry block

\* impl From<u16> for ChargeState, lines 135-152
ChargeStateFrom(i) ==
    CASE i = 0 -> [variant |-> "Start", code |-> 0]
      [] i = 1 -> [variant |-> "NightCheck", code |-> 0]
      [] i = 2 -> [variant |-> "Disconnect", code |-> 0]
      [] i = 3 -> [variant |-> "Night", code |-> 0]
      [] i = 4 -> [variant |-> "Fault", code |-> 0]
      [] i = 5 -> [variant |-> "BulkMPPT", code |-> 0]
      [] i = 6 -> [variant |-> "Absorption", code |-> 0]
      [] i = 7 -> [variant |-> "Float", code |-> 0]
      [] i = 8 -> [variant |-> "Equalize", code |-> 0]
      [] i = 9 -> [variant |-> "Slave", code |-> 0]
      [] i = 10 -> [variant |-> "Fixed", code |-> 0]
      [] OTHER -> [variant |-> "UnknownState", code |-> i]

\* a decode whose fallback drops the high byte of the code
LoadStateFromLow(i) ==
    IF i = 1 THEN [variant |-> "Normal", code |-> 0]
    ELSE [variant |-> "Unknown", code |-> i % 256]

\* impl From<u16> for LoadState, lines 243-258
LoadStateFrom(i) ==
    CASE i = 0 -> [variant |-> "Start", code |-> 0]
      [] i = 1 -> [variant |-> "Normal", code |-> 0]
      [] i = 2 -> [variant |-> "LVDWarning", code |-> 0]
      [] i = 3 -> [variant |-> "LVD", code |-> 0]
      [] i = 4 -> [variant |-> "Fault", code |-> 0]
      [] i = 5 -> [variant |-> "Disconnect", code |-> 0]
      [] i = 6 -> [variant |-> "NormalOff", code |-> 0]
      [] i = 7 -> [variant |-> "Override", code |-> 0]
      [] i = 8 -> [variant |-> "NotUsed", code |-> 0]
      [] OTHER -> [variant |-> "Unknown", code |-> i]

\* bitflags! ArrayFaults: u16, lines 154-174: flags 0x0001 .. 0x8000
ArrayFaultsAll == 0..15
\* bitflags! LoadFaults: u16, lines 176-188: flags 0x0001 .. 0x0080
LoadFaultsAll == 0..7
\* bitflags! Alarms: u32, lines 190-221: flags 0x00000001 .. 0x04000000
AlarmsAll == 0..26

\* bitflags from_bits_truncate: the bits that are no flag of the type are
\* dropped; the value is the set of the bit positions kept (its .bits())
from_bits_truncate(all, bits) == bits \cap all

\* Connection::stats, lines 682-746: the Stats decoded from the 81 registers
\* raw (raw[k + 1] is the code's raw[k]).  The timestamp (the wall clock) is
\* left out.  A counter scaled by 0.1 is kept as the bits of its count of
\* tenths, the hour meter as the bits of its count of hours.
DecodeStats(raw) == [
    software_version |-> raw[0 + 1],
    battery_voltage_settings_multiplier |-> raw[1 + 1],
    supply_3v3 |-> v(gf32(raw[4 + 1])),
    supply_12v |-> v(gf32(raw[5 + 1])),
    supply_5v |-> v(gf32(raw[6 + 1])),
    gate_drive_voltage |-> v(gf32(raw[7 + 1])),
    battery_terminal_voltage |-> v(gf32(raw[18 + 1])),
    array_voltage |-> v(gf32(raw[19 + 1])),
    load_voltage |-> v(gf32(raw[20 + 1])),
    charge_current |-> a(gf32(raw[16 + 1])),
    array_current |-> a(gf32(raw[17 + 1])),
    load_current |-> a(gf32(raw[22 + 1])),
    battery_current_net |-> a(gf32(raw[21 + 1])),
    battery_sense_voltage |-> v(gf32(raw[23 + 1])),
    meterbus_voltage |-> v(gf32(raw[8 + 1])),
    heatsink_temperature |-> c(gf32(raw[26 + 1])),
    battery_temperature |-> c(gf32(raw[27 + 1])),
    ambient_temperature |-> c(gf32(raw[28 + 1])),
    rts_temperature |->
        LET t == gf32(raw[29 + 1])
        IN IF IsNaN(t) THEN [some |-> FALSE, t |-> F0]
           ELSE [some |-> TRUE, t |-> c(t)],
    u_inductor_temperature |-> c(gf32(raw[30 + 1])),
    v_inductor_temperature |-> c(gf32(raw[31 + 1])),
    w_inductor_temperature |-> c(gf32(raw[32 + 1])),
    charge_state |-> ChargeStateFrom(raw[33 + 1]),
    array_faults |-> from_bits_truncate(ArrayFaultsAll, Bits16(raw[34 + 1])),
    battery_voltage_slow |-> v(gf32(raw[35 + 1])),
    target_voltage |-> v(gf32(raw[36 + 1])),
    ah_charge_resettable |-> [tenths |-> gu32(raw[38 + 1], raw[39 + 1])],
    ah_charge_total |-> [tenths |-> gu32(raw[40 + 1], raw[41 + 1])],
    kwh_charge_resettable |-> gf32(raw[42 + 1]),
    kwh_charge_total |-> gf32(raw[43 + 1]),
    load_state |-> LoadStateFrom(raw[46 + 1]),
    load_faults |-> from_bits_truncate(LoadFaultsAll, Bits16(raw[47 + 1])),
    lvd_setpoint |-> v(gf32(raw[48 + 1])),
    ah_load_resettable |-> [tenths |-> gu32(raw[50 + 1], raw[51 + 1])],
    ah_load_total |-> [tenths |-> gu32(raw[52 + 1], raw[53 + 1])],
    hourmeter |-> [hours |-> gu32(raw[54 + 1], raw[55 + 1])],
    alarms |-> from_bits_truncate(AlarmsAll, gu32(raw[56 + 1], raw[57 + 1])),
    array_power |-> gf32(raw[60 + 1]),
    array_vmp |-> v(gf32(raw[61 + 1])),
    array_max_power_sweep |-> gf32(raw[62 + 1]),
    array_voc |-> v(gf32(raw[63 + 1])),
    battery_v_min_daily |-> v(gf32(raw[65 + 1])),
    battery_v_max_daily |-> v(gf32(raw[66 + 1])),
    ah_charge_daily |-> gf32(raw[67 + 1]),
    ah_load_daily |-> gf32(raw[68 + 1]),
    array_faults_daily |-> from_bits_truncate(ArrayFaultsAll, Bits16(raw[69 + 1])),
    load_faults_daily |-> from_bits_truncate(LoadFaultsAll, Bits16(raw[70 + 1])),
    alarms_daily |-> from_bits_truncate(AlarmsAll, gu32(raw[71 + 1], raw[72 + 1])),
    array_voltage_max_daily |-> v(gf32(raw[76 + 1])),
    array_voltage_fixed |-> v(gf32(raw[79 + 1])),
    array_voc_percent_fixed |-> gf32(raw[80 + 1]) ]

\* ------------------------------------------------------------------
\* Inputs: the candidate Settings and the device's registers

\* Bounds of the model
MaxWriteCalls == 1
MaxPending == 3

\* a valid Settings; 14.4 is the f32 0x41666666
BaseSettings == [
    regulation_voltage |-> F32(0, 130, 6710886),
    float_voltage |-> F32Dyadic(55, 2),
    time_before_float |-> F32FromNat(3600),
    time_before_float_low_battery |-> F32FromNat(1800),
    float_low_battery_voltage_trigger |-> F32Dyadic(23, 1),
    float_cancel_voltage |-> F32Dyadic(25, 1),
    exit_float_time |-> F32FromNat(1800),
    equalize_voltage |-> F32Dyadic(61, 2),
    days_between_equalize_cycles |-> dy(F32FromNat(28)),
    equalize_time_limit_above_regulation_voltage |-> F32FromNat(10800),
    equalize_time_limit_at_regulation_voltage |-> F32FromNat(7200),
    alarm_on_setting_change |-> TRUE,
    reference_charge_voltage_limit |-> F32FromNat(15),
    battery_charge_current_limit |-> F32FromNat(30),
    temperature_compensation_coefficent |-> F32Dyadic(1, 5),
    high_voltage_disconnect |-> F32Dyadic(33, 1),
    high_voltage_reconnect |-> F32FromNat(14),
    maximum_charge_voltage_reference |-> F32FromNat(16),
    max_battery_temp_compensation_limit |-> F32FromInt(80),
    min_battery_temp_compensation_limit |-> F32FromInt(-30),
    load_low_voltage_disconnect |-> F32Dyadic(23, 1),
    load_low_voltage_reconnect |-> F32Dyadic(51, 2),
    load_high_voltage_disconnect |-> F32FromNat(16),
    load_high_voltage_reconnect |-> F32Dyadic(31, 1),
    lvd_load_current_compensation |-> F32Dyadic(1, 1),
    lvd_warning_timeout |-> mn(F32FromNat(10)),
    led_green_to_green_and_yellow_limit |-> F32Dyadic(53, 2),
    led_green_and_yellow_to_yellow_limit |-> F32Dyadic(51, 2),
    led_yellow_to_yellow_and_red_limit |-> F32Dyadic(49, 2),
    led_yellow_and_red_to_red_flashing_limit |-> F32Dyadic(47, 2),
    modbus_id |-> 1,
    meterbus_id |-> 15,
    mppt_fixed_vmp |-> F32FromNat(60),
    mppt_fixed_vmp_percent |-> F32Dyadic(1, 1),
    charge_current_limit |-> F32FromNat(40) ]

\* another valid value for every field, with another encoding; 12.3 is the
\* f32 0x4144CCCD and 90.5 s shows the truncation of to_sec
AltSettings == [
    regulation_voltage |-> F32(0, 130, 4508877),
    float_voltage |-> F32Dyadic(27, 1),
    time_before_float |-> F32Dyadic(181, 1),
    time_before_float_low_battery |-> F32FromNat(900),
    float_low_battery_voltage_trigger |-> F32FromNat(12),
    float_cancel_voltage |-> F32FromNat(13),
    exit_float_time |-> F32FromNat(65535),
    equalize_voltage |-> F32FromNat(15),
    days_between_equalize_cycles |-> dy(F32FromNat(255)),
    equalize_time_limit_above_regulation_voltage |-> F32FromNat(3600),
    equalize_time_limit_at_regulation_voltage |-> F32FromNat(0),
    alarm_on_setting_change |-> FALSE,
    reference_charge_voltage_limit |-> F32Dyadic(35, 1),
    battery_charge_current_limit |-> F32Dyadic(51, 1),
    temperature_compensation_coefficent |-> F32FromNat(0),
    high_voltage_disconnect |-> F32FromNat(17),
    high_voltage_reconnect |-> F32Dyadic(27, 1),
    maximum_charge_voltage_reference |-> F32Dyadic(31, 1),
    max_battery_temp_compensation_limit |-> F32FromInt(127),
    min_battery_temp_compensation_limit |-> F32FromInt(-128),
    load_low_voltage_disconnect |-> F32FromNat(11),
    load_low_voltage_reconnect |-> F32FromNat(12),
    load_high_voltage_disconnect |-> F32Dyadic(33, 1),
    load_high_voltage_reconnect |-> F32FromNat(15),
    lvd_load_current_compensation |-> F32FromNat(2),
    lvd_warning_timeout |-> mn(F32FromNat(5)),
    led_green_to_green_and_yellow_limit |-> F32FromNat(13),
    led_green_and_yellow_to_yellow_limit |-> F32Dyadic(25, 1),
    led_yellow_to_yellow_and_red_limit |-> F32FromNat(12),
    led_yellow_and_red_to_red_flashing_limit |-> F32Dyadic(23, 1),
    modbus_id |-> 247,
    meterbus_id |-> 3,
    mppt_fixed_vmp |-> F32FromNat(120),
    mppt_fixed_vmp_percent |-> F32Dyadic(3, 2),
    charge_current_limit |-> F32Dyadic(51, 1) ]

\* a value out of range for every field that validate checks: above the
\* maximum, a negative voltage, a modbus_id of 0
BadSettings == [
    regulation_voltage |-> F32FromNat(18),
    float_voltage |-> F32FromInt(-1),
    time_before_float |-> F32FromNat(65536),
    time_before_float_low_battery |-> F32FromInt(-1),
    float_low_battery_voltage_trigger |-> F32FromNat(18),
    float_cancel_voltage |-> F32FromNat(18),
    exit_float_time |-> F32FromNat(70000),
    equalize_voltage |-> F32Dyadic(71, 2),
    days_between_equalize_cycles |-> dy(F32FromNat(256)),
    equalize_time_limit_above_regulation_voltage |-> F32FromNat(65536),
    equalize_time_limit_at_regulation_voltage |-> F32FromNat(65536),
    reference_charge_voltage_limit |-> F32FromNat(18),
    battery_charge_current_limit |-> F32FromNat(41),
    temperature_compensation_coefficent |-> F32FromNat(18),
    high_voltage_disconnect |-> F32FromNat(18),
    high_voltage_reconnect |-> F32FromNat(18),
    maximum_charge_voltage_reference |-> F32FromNat(18),
    max_battery_temp_compensation_limit |-> F32FromInt(128),
    min_battery_temp_compensation_limit |-> F32FromInt(-129),
    load_low_voltage_disconnect |-> F32FromNat(18),
    load_low_voltage_reconnect |-> F32FromNat(18),
    load_high_voltage_disconnect |-> F32FromNat(18),
    load_high_voltage_reconnect |-> F32FromNat(18),
    lvd_load_current_compensation |-> F32FromNat(10001),
    lvd_warning_timeout |-> mn(F32FromNat(1093)),
    led_green_to_green_and_yellow_limit |-> F32FromNat(18),
    led_green_and_yellow_to_yellow_limit |-> F32FromNat(18),
    led_yellow_to_yellow_and_red_limit |-> F32FromNat(18),
    led_yellow_and_red_to_red_flashing_limit |-> F32FromNat(18),
    modbus_id |-> 0,
    meterbus_id |-> 16,
    mppt_fixed_vmp |-> F32FromNat(121),
    mppt_fixed_vmp_percent |-> F32Dyadic(3, 1),
    charge_current_limit |-> F32FromNat(41) ]

\* the fields at the indices lo..hi of the declaration order
FieldRun(lo, hi) == {SettingsFields[j] : j \in {k \in 1..NFields : lo <= k /\ k <= hi}}

\* where the sampled runs of several changed fields start: the first field,
\* across the gaps of the address map, and up to the last field
RunStarts == {1, 11, 33}

\* the sets of fields a candidate changes: none, any one field, and runs of up
\* to MaxPending consecutive fields
ChangeSets ==
    {{}} \cup {FieldRun(i, i) : i \in 1..NFields}
         \cup {FieldRun(i, i + n - 1) : i \in RunStarts, n \in 2..MaxPending}

\* BaseSettings with the fields of D changed
Mix(D) == [f \in DOMAIN BaseSettings |->
              IF f \in D THEN AltSettings[f] ELSE BaseSettings[f]]

\* the candidates of write_settings: valid ones (the sampled changes), and
\* ones with one or two fields out of range (beside a changed valid field)
Candidates ==
    {Mix(D) : D \in ChangeSets}
    \cup {[Mix({"float_voltage"}) EXCEPT ![f] = BadSettings[f]] : f \in DOMAIN BadSettings}
    \cup {[Mix({}) EXCEPT ![f] = BadSettings[f], !["modbus_id"] = 248] :
             f \in {"regulation_voltage", "lvd_warning_timeout"}}

\* the settings block that holds the encoding of s; the registers bound to
\* no field hold 0xA5A5
EncodeBlock(s) ==
    [k \in 1..(SETTINGS_END - SETTINGS_BASE + 1) |->
        LET is == {i \in 1..NFields : WriteSeq[i].addr = SETTINGS_BASE + k - 1}
        IN IF is = {} THEN 42405 ELSE WriteNew(s, CHOOSE i \in is : TRUE)]

\* the registers of the model: the telemetry block and the settings block,
\* each with the register after it
TelemetryAddrs == 0..81
SettingsAddrs == SETTINGS_BASE..(SETTINGS_END + 1)
RegAddrs == TelemetryAddrs \cup SettingsAddrs

\* a telemetry block: 12.5 (f16 0x4A40) everywhere, but the state codes, the
\* fault and alarm registers and the RTS register (25.0)
TelemetryBase ==
    [k \in TelemetryAddrs |->
        CASE k = 0 -> 27
          [] k = 1 -> 1
          [] k = 29 -> 20032
          [] k = 33 -> 5
          [] k = 46 -> 1
          [] k \in {34, 47, 56, 57, 69, 70, 71, 72} -> 0
          [] OTHER -> 19008]

DeviceRegs(tel, s) ==
    [r \in RegAddrs |->
        IF r \in TelemetryAddrs THEN tel[r]
        ELSE IF r > SETTINGS_END THEN 4660
        ELSE EncodeBlock(s)[r - SETTINGS_BASE + 1]]

\* ------------------------------------------------------------------
\* The connection and the device behind it

VARIABLES
    regs,      \* the device's holding registers
    pc,        \* "idle", or "write_setting" inside write_settings
    settings,  \* the candidate of the last write_settings call
    cur,       \* the block that call read
    idx,       \* the index in WriteSeq of its next write_setting call
    tlog,      \* the transport calls of the last operation, in order
    ret,       \* what the last operation returned
    wret,      \* what the last write_settings call returned
    regs0,     \* history: the registers when the last write_settings began
    nwrites,   \* the number of write_settings and write_coil calls so far
    coils      \* the device's coils, by address

vars == <<regs, pc, settings, cur, idx, tlog, ret, wret, regs0, nwrites, coils>>

NoValue == [none |-> TRUE]
NoRet == [op |-> "none", status |-> "none", err |-> "", value |-> NoValue]
Ok(op, val) == [op |-> op, status |-> "ok", err |-> "", value |-> val]
Err(op, text) == [op |-> op, status |-> "err", err |-> text, value |-> NoValue]
Panic(op) == [op |-> op, status |-> "panic", err |-> "index out of bounds", value |-> NoValue]

\* what the transport can answer to a read: the registers asked for, a
\* failure, or one register fewer or more than asked for
ReadOutcomes == {"ok", "fail", "short", "long"}
WriteOutcomes == {"ok", "fail"}

\* the registers a read of count registers from addr returns
ReadRegs(addr, count, o) ==
    LET n == CASE o = "short" -> count - 1
               [] o = "long" -> count + 1
               [] OTHER -> count
    IN [k \in 1..n |-> regs[addr + k - 1]]

\* a transport call as logged: a read of n registers from addr, with the
\* number of registers it returned (-1: it failed), or a write of the value
\* n to addr (got 1: it succeeded, -1: it failed)
ReadCall(addr, count, o, raw) ==
    [op |-> "read_holding_registers", addr |-> addr, n |-> count,
     got |-> IF o = "fail" THEN -1 ELSE Len(raw)]
WriteCall(addr, val, o) ==
    [op |-> "write_single_register", addr |-> addr, n |-> val,
     got |-> IF o = "fail" THEN -1 ELSE 1]

\* a length check that lets a longer answer through
SizeOkAtLeast(raw, len) == Len(raw) >= len

\* lines 679, 756 and 832: the length check on the registers a read returned
SizeOk(raw, len) == Len(raw) = len

\* line 679: the number of registers stats reads
StatsLen == 81

\* line 750: the number of registers read_settings reads
ReadSettingsLen == (SETTINGS_END - SETTINGS_BASE) + 1

\* line 826: the number of registers write_settings reads
WriteSettingsLen == SETTINGS_END - SETTINGS_BASE

\* a comparison that never skips a write
DiffersAlways(block, addr, new) == TRUE

\* a comparison with the register after the field's own; the last register
\* of the block is compared with itself
DiffersShifted(block, addr, new) ==
    IF addr - SETTINGS_BASE + 2 <= Len(block)
    THEN block[addr - SETTINGS_BASE + 2] # new
    ELSE block[addr - SETTINGS_BASE + 1] # new

\* line 809: write_setting skips a register that already holds the value;
\* cur[addr - SETTINGS_BASE] is in bounds here
Differs(block, addr, new) == block[addr - SETTINGS_BASE + 1] # new

\* a validation that accepts every candidate
ValidatedNone(s) == [ok |-> TRUE, err |-> ""]

\* line 825: settings.validate()? returns the error before anything else
Validated(s) == validate(s)

Init ==
    /\ regs = DeviceRegs(TelemetryBase, Mix({}))
    /\ pc = "idle"
    /\ settings = Mix({})
    /\ cur = <<>>
    /\ idx = 0
    /\ tlog = <<>>
    /\ ret = NoRet
    /\ wret = NoRet
    /\ regs0 = regs
    /\ nwrites = 0
    /\ coils = CoilsOff

\* Connection::stats, lines 673-747
stats ==
    /\ pc = "idle"
    /\ \E o \in ReadOutcomes :
          LET raw == ReadRegs(0, StatsLen, o)
          IN /\ tlog' = <<ReadCall(0, StatsLen, o, raw)>>
             /\ ret' = IF o = "fail"
                       THEN Err("stats", "stats failed to read holding registers")
                       ELSE IF ~SizeOk(raw, StatsLen)
                       THEN Err("stats", "stats wrong number of registers read")
                       ELSE Ok("stats", DecodeStats(raw))
    /\ UNCHANGED <<regs, pc, settings, cur, idx, wret, regs0, nwrites, coils>>

\* Connection::read_settings, lines 749-806
read_settings ==
    /\ pc = "idle"
    /\ \E o \in ReadOutcomes :
          LET raw == ReadRegs(SETTINGS_BASE, ReadSettingsLen, o)
          IN /\ tlog' = <<ReadCall(SETTINGS_BASE, ReadSettingsLen, o, raw)>>
             /\ ret' = IF o = "fail"
                       THEN Err("read_settings", "read_settings failed to read registers")
                       ELSE IF ~SizeOk(raw, ReadSettingsLen)
                       THEN Err("read_settings",
                                "read_settings read unexpected number of registers")
                       ELSE Ok("read_settings", DecodeSettings(raw))
    /\ UNCHANGED <<regs, pc, settings, cur, idx, wret, regs0, nwrites, coils>>

\* Connection::write_settings, lines 824-838: the validation and the read of
\* the current block; the write_setting calls follow one by one
write_settings(s) ==
    /\ pc = "idle"
    /\ nwrites < MaxWriteCalls
    /\ nwrites' = nwrites + 1
    /\ settings' = s
    /\ regs0' = regs
    /\ UNCHANGED <<regs, coils>>
    /\ IF ~Validated(s).ok
       THEN /\ ret' = Err("write_settings", Validated(s).err)
            /\ wret' = ret'
            /\ tlog' = <<>>
            /\ cur' = <<>>
            /\ idx' = 0
            /\ pc' = "idle"
       ELSE \E o \in ReadOutcomes :
              LET raw == ReadRegs(SETTINGS_BASE, WriteSettingsLen, o)
              IN /\ tlog' = <<ReadCall(SETTINGS_BASE, WriteSettingsLen, o, raw)>>
                 /\ IF o = "fail"
                    THEN /\ ret' = Err("write_settings",
                                       "write_settings failed to read current settings")
                         /\ wret' = ret'
                         /\ cur' = <<>>
                         /\ idx' = 0
                         /\ pc' = "idle"
                    ELSE IF ~SizeOk(raw, WriteSettingsLen)
                    THEN /\ ret' = Err("write_settings",
                                       "write_settings, read unexpected number of settings")
                         /\ wret' = ret'
                         /\ cur' = <<>>
                         /\ idx' = 0
                         /\ pc' = "idle"
                    ELSE /\ ret' = NoRet
                         /\ wret' = NoRet
                         /\ cur' = raw
                         /\ idx' = 1
                         /\ pc' = "write_setting"

\* a sequence of write_setting calls that leaves out every second field
AdvanceSkip ==
    IF idx >= NFields - 1
    THEN /\ pc' = "idle"
         /\ ret' = Ok("write_settings", NoValue)
         /\ wret' = ret'
         /\ idx' = idx
    ELSE /\ pc' = "write_setting"
         /\ ret' = ret
         /\ wret' = wret
         /\ idx' = idx + 2

\* a sequence that calls write_setting for the same field again
AdvanceStay ==
    /\ pc' = "write_setting"
    /\ ret' = ret
    /\ wret' = wret
    /\ idx' = idx

\* the end of one write_setting call that returned Ok: the next call, or the
\* Ok(()) of write_settings after the last one (line 944)
Advance ==
    IF idx = NFields
    THEN /\ pc' = "idle"
         /\ ret' = Ok("write_settings", NoValue)
         /\ wret' = ret'
         /\ idx' = idx
    ELSE /\ pc' = "write_setting"
         /\ ret' = ret
         /\ wret' = wret
         /\ idx' = idx + 1

\* Connection::write_setting, lines 808-819, as called at lines 839-943: the
\* index cur[addr - SETTINGS_BASE] panics when it is outside the block read
write_setting ==
    /\ pc = "write_setting"
    /\ UNCHANGED <<settings, cur, regs0, nwrites, coils>>
    /\ LET addr == WriteAddr(idx)
           new == WriteNew(settings, idx)
       IN IF addr - SETTINGS_BASE >= Len(cur)
          THEN /\ pc' = "idle"
               /\ ret' = Panic("write_settings")
               /\ wret' = ret'
               /\ UNCHANGED <<regs, idx, tlog>>
          ELSE IF ~Differs(cur, addr, new)
          THEN /\ Advance
               /\ UNCHANGED <<regs, tlog>>
          ELSE \E o \in WriteOutcomes :
                 /\ tlog' = Append(tlog, WriteCall(addr, new, o))
                 /\ IF o = "fail"
                    THEN /\ pc' = "idle"
                         /\ ret' = Err("write_settings", WriteContext(addr))
                         /\ wret' = ret'
                         /\ UNCHANGED <<regs, idx>>
                    ELSE /\ regs' = [regs EXCEPT ![addr] = new]
                         /\ Advance

Next ==
    \/ stats
    \/ read_settings
    \/ \E s \in Candidates : write_settings(s)
    \/ write_setting

Spec == Init /\ [][Next]_vars

\* ------------------------------------------------------------------
\* The telemetry decode on its own: stats over sampled telemetry blocks

\* f16 patterns of every sign and exponent, with the mantissas 0, 1, 512 and
\* 1023: zeros, subnormals, normals, infinities and NaNs
F16Samples == {u \in 0..65535 : u % 1024 \in {0, 1, 512, 1023}}

\* every single bit, no bit, all bits, and the two halves
MaskSamples == {Pow2(i) : i \in 0..15} \cup {0, 65535, 255, 65280}

\* the registers of the fault and alarm sets (current and daily)
MaskRegs == {34, 47, 56, 57, 69, 70, 71, 72}

TelemetrySamples ==
    {[TelemetryBase EXCEPT ![29] = u] : u \in F16Samples}
    \cup {[TelemetryBase EXCEPT ![r] = u] : r \in MaskRegs, u \in MaskSamples}

InitStats ==
    /\ regs \in {DeviceRegs(tel, Mix({})) : tel \in TelemetrySamples}
    /\ pc = "idle"
    /\ settings = Mix({})
    /\ cur = <<>>
    /\ idx = 0
    /\ tlog = <<>>
    /\ ret = NoRet
    /\ wret = NoRet
    /\ regs0 = regs
    /\ nwrites = 0
    /\ coils = CoilsOff

NextStats == stats

SpecStats == InitStats /\ [][NextStats]_vars
\* ------------------------------------------------------------------
\* The decode of raw values: stats and read_settings over devices that hold
\* one raw value in the state registers and the temperature limit registers

U16 == 0..(Pow2(16) - 1)

\* the raw values sampled: every one below 512, and the first and the last
\* of every 64 above (0x7FFF, 0x8000, 0xFF00 and 0xFFFF among them)
RawSamples == {r \in U16 : r < 512 \/ r % 64 \in {0, 63}}

BaseDevice == DeviceRegs(TelemetryBase, Mix({}))

\* the device with r in the charge state and load state registers (0x0021,
\* 0x002E) and in the temperature limit registers (0xE01E, 0xE01F)
RawDevice(r) ==
    [BaseDevice EXCEPT ![33] = r, ![46] = r, ![57374] = r, ![57375] = r]

InitRaw ==
    /\ regs \in {RawDevice(r) : r \in RawSamples}
    /\ pc = "idle"
    /\ settings = Mix({})
    /\ cur = <<>>
    /\ idx = 0
    /\ tlog = <<>>
    /\ ret = NoRet
    /\ wret = NoRet
    /\ regs0 = regs
    /\ nwrites = 0
    /\ coils = CoilsOff

NextRaw ==
    \/ stats
    \/ read_settings

SpecRaw == InitRaw /\ [][NextRaw]_vars

\* ------------------------------------------------------------------
\* Settings::validate on its own, over candidates at and around the bounds

\* a quiet NaN and the infinities, as f32
F32NaN == F32(0, 255, 4194304)
F32PosInf == F32(0, 255, 0)

\* the check of validate that a day bound is in: its unit is 86400 s
IsDayCheck(ck) == ck.kind = "f32" /\ ck.max = dy(F255)

\* the value one unit above the maximum of a check: 1 V, 1 A, 1 ohm, 1 s,
\* 1 day, 1 degree, 1 (a ratio, or an address)
OneAbove(ck) ==
    IF ck.kind = "u8" THEN ck.max + 1
    ELSE CASE ck.max = v(F17_5) -> v(F32Dyadic(37, 1))
           [] ck.max = sec(F65535) -> sec(F32FromNat(65536))
           [] ck.max = dy(F255) -> dy(F32FromNat(256))
           [] ck.max = a(F40) -> a(F32FromNat(41))
           [] ck.max = c(F32FromInt(127)) -> c(F32FromNat(128))
           [] ck.max = om(F10000) -> om(F32FromNat(10001))
           [] ck.max = v(F120) -> v(F32FromNat(121))
           [] ck.max = F1 -> F32FromNat(2)

\* the value one unit below the minimum of a check
OneBelow(ck) ==
    IF ck.kind = "u8" THEN ck.min - 1
    ELSE IF ck.min = c(F32FromInt(-128)) THEN c(F32FromInt(-129))
    ELSE IF IsDayCheck(ck) THEN dy(F32FromInt(-1))
    ELSE F32FromInt(-1)

\* a valid candidate with the field of the i-th check of validate set to x
WithField(i, x) == [BaseSettings EXCEPT ![ValidateChecks[i].field] = x]

NChecks == Len(ValidateChecks)

\* the candidates with one field at a bound, or one unit outside it
BoundCandidates ==
    {WithField(i, ValidateChecks[i].min) : i \in 1..NChecks}
    \cup {WithField(i, ValidateChecks[i].max) : i \in 1..NChecks}
    \cup {WithField(i, OneBelow(ValidateChecks[i])) : i \in 1..NChecks}
    \cup {WithField(i, OneAbove(ValidateChecks[i])) : i \in 1..NChecks}

\* the candidates with two fields above their maximum
TwoBadCandidates ==
    {[WithField(i, OneAbove(ValidateChecks[i]))
         EXCEPT ![ValidateChecks[j].field] = OneAbove(ValidateChecks[j])] :
       i \in 1..NChecks, j \in 1..NChecks}

\* the candidates with an f32 field that is a NaN or an infinity
NonFiniteCandidates ==
    {WithField(i, x) : i \in {k \in 1..NChecks : ValidateChecks[k].kind = "f32"},
                       x \in {F32NaN, F32PosInf}}

ValidateInputs ==
    BoundCandidates \cup TwoBadCandidates \cup NonFiniteCandidates
    \cup {BaseSettings, AltSettings, BadSettings}

InitValidate ==
    /\ regs = BaseDevice
    /\ pc = "idle"
    /\ settings \in ValidateInputs
    /\ cur = <<>>
    /\ idx = 0
    /\ tlog = <<>>
    /\ ret = NoRet
    /\ wret = NoRet
    /\ regs0 = regs
    /\ nwrites = 0
    /\ coils = CoilsOff

\* Settings::validate(&self), lines 552-594, called on the candidate
validate_call ==
    /\ pc = "idle"
    /\ ret' = IF validate(settings).ok
              THEN Ok("validate", NoValue)
              ELSE Err("validate", validate(settings).err)
    /\ UNCHANGED <<regs, pc, settings, cur, idx, tlog, wret, regs0, nwrites, coils>>

NextValidate == validate_call

SpecValidate == InitValidate /\ [][NextValidate]_vars

\* ------------------------------------------------------------------
\* The settings codec on its own: the registers write_settings encodes a
\* candidate to, decoded as read_settings decodes them

\* the whole numbers sampled for the integer-encoded fields
WholeSamples ==
    (-130..300) \cup {1091, 1092, 1093, 4095, 4096, 32767, 32768, 65534, 65535, 65536}

\* the quantity of n units of the encoding enc
WholeValue(enc, n) ==
    CASE enc = "sec" -> sec(F32FromInt(n))
      [] enc = "mn" -> mn(F32FromInt(n))
      [] enc = "dy" -> dy(F32FromInt(n))
      [] enc = "ic" -> c(F32FromInt(n))
      [] enc = "u8" -> n % 256
      [] enc = "bool" -> (n % 2 = 1)

IntegerEncodings == {"sec", "mn", "dy", "ic", "u8", "bool"}

\* the candidates with one integer-encoded field at a whole number of its unit
WholeCandidates ==
    {[BaseSettings EXCEPT ![WriteSeq[i].field] = WholeValue(WriteSeq[i].enc, n)] :
        i \in {k \in 1..NFields : WriteSeq[k].enc \in IntegerEncodings},
        n \in WholeSamples}

InitCodec ==
    /\ regs = BaseDevice
    /\ pc = "idle"
    /\ settings \in WholeCandidates
    /\ cur = <<>>
    /\ idx = 0
    /\ tlog = <<>>
    /\ ret = NoRet
    /\ wret = NoRet
    /\ regs0 = regs
    /\ nwrites = 0
    /\ coils = CoilsOff

\* the `new` arguments of write_settings for the candidate (lines 839-943),
\* decoded by the Settings expression of read_settings (lines 763-805)
encode_decode ==
    /\ pc = "idle"
    /\ ret' = Ok("encode_decode", DecodeSettings(EncodeBlock(settings)))
    /\ UNCHANGED <<regs, pc, settings, cur, idx, tlog, wret, regs0, nwrites, coils>>

NextCodec == encode_decode

SpecCodec == InitCodec /\ [][NextCodec]_vars

\* ------------------------------------------------------------------
\* Every operation of a connection: the coils beside the registers

\* what a coil operation returned: as Ok and Err, with the coil it was for
CoilOk(op, coil, val) ==
    [op |-> op, status |-> "ok", err |-> "", value |-> val, coil |-> coil]
CoilErr(op, coil, text) ==
    [op |-> op, status |-> "err", err |-> text, value |-> NoValue, coil |-> coil]

\* the bits a read of one coil at addr returns: the coil; none; one too many
ReadBits(addr, o) ==
    CASE o = "short" -> <<>>
      [] o = "long" -> <<coils[addr], coils[addr]>>
      [] OTHER -> <<coils[addr]>>

\* a transport call on a coil as logged: a read of n coils from addr with
\* the number of bits it returned, or a write of the bit n to addr
ReadCoilsCall(addr, count, o, res) ==
    [op |-> "read_coils", addr |-> addr, n |-> count,
     got |-> IF o = "fail" THEN -1 ELSE Len(res)]
WriteCoilCall(addr, val, o) ==
    [op |-> "write_single_coil", addr |-> addr, n |-> val,
     got |-> IF o = "fail" THEN -1 ELSE 1]

\* Connection::read_coil, lines 656-663
read_coil(coil) ==
    /\ pc = "idle"
    /\ \E o \in ReadOutcomes :
          LET res == ReadBits(address(coil), o)
          IN /\ tlog' = <<ReadCoilsCall(address(coil), 1, o, res)>>
             /\ ret' = IF o = "fail"
                       THEN CoilErr("read_coil", coil, "read coil failed")
                       ELSE IF Len(res) # 1
                       THEN CoilErr("read_coil", coil, "wrong number of coils read")
                       ELSE CoilOk("read_coil", coil, res[1])
    /\ UNCHANGED <<regs, pc, settings, cur, idx, wret, regs0, nwrites, coils>>

\* Connection::write_coil, lines 665-671
write_coil(coil, val) ==
    /\ pc = "idle"
    /\ nwrites < MaxWriteCalls
    /\ nwrites' = nwrites + 1
    /\ \E o \in WriteOutcomes :
          /\ tlog' = <<WriteCoilCall(address(coil), val, o)>>
          /\ IF o = "fail"
             THEN /\ ret' = CoilErr("write_coil", coil, "failed to write coil")
                  /\ UNCHANGED coils
             ELSE /\ ret' = CoilOk("write_coil", coil, NoValue)
                  /\ coils' = [coils EXCEPT ![address(coil)] = val]
    /\ UNCHANGED <<regs, pc, settings, cur, idx, wret, regs0>>

\* the candidates of write_settings here: one equal to the device, two with
\* changed fields, one that validate rejects
OpsCandidates ==
    {Mix({}), Mix(FieldRun(1, 2)), Mix({"mppt_fixed_vmp"}),
     [Mix({"float_voltage"}) EXCEPT !["modbus_id"] = 0]}

NextOps ==
    \/ stats
    \/ read_settings
    \/ \E s \in OpsCandidates : write_settings(s)
    \/ write_setting
    \/ \E coil \in Coils : read_coil(coil)
    \/ \E coil \in Coils, val \in BOOLEAN : write_coil(coil, val)

SpecOps == Init /\ [][NextOps]_vars

\* ------------------------------------------------------------------
\* Settings read from a device and written back unmodified

\* raw register values: small integers, the ends of i8, u8 and u16, a value
\* with a high byte, the minutes at the bound of lvd_warning_timeout, and
\* the f16 patterns of 1.0, 12.5, -0.0, an infinity and two NaNs
RereadSamples ==
    {0, 1, 2, 127, 128, 255, 256, 257, 1092, 1093,
     15360, 19008, 31744, 31745, 32256, 32768, 65408, 65535}

\* the device with the register at addr holding r
RereadDevice(addr, r) == [BaseDevice EXCEPT ![addr] = r]

InitReread ==
    /\ \E i \in 1..NFields, r \in RereadSamples :
          /\ regs = RereadDevice(WriteAddr(i), r)
          /\ regs0 = regs
    /\ pc = "idle"
    /\ settings = Mix({})
    /\ cur = <<>>
    /\ idx = 0
    /\ tlog = <<>>
    /\ ret = NoRet
    /\ wret = NoRet
    /\ nwrites = 0
    /\ coils = CoilsOff

\* write_settings called with the Settings the last read_settings returned
write_back ==
    /\ ret.op = "read_settings"
    /\ ret.status = "ok"
    /\ write_settings(ret.value)

NextReread ==
    \/ read_settings
    \/ write_back
    \/ write_setting

SpecReread == InitReread /\ [][NextReread]_vars

\* ------------------------------------------------------------------
\* Properties of write_settings

IsWrite(e) == e.op = "write_single_register"

\* the register writes among the transport calls of the last operation
Writes == SelectSeq(tlog, IsWrite)

\* a write_settings call is running, or was the last operation
InCall == pc = "write_setting" \/ ret.op = "write_settings"

\* the last operation was a write_settings call that validated its candidate
\* and met no transport error
RanThrough ==
    /\ pc = "idle"
    /\ ret.op = "write_settings"
    /\ ret.status # "err"

\* the indices of the fields whose register in r differs from the encoding of s
PendingFields(r, s) == {i \in 1..NFields : r[WriteSeq[i].addr] # WriteNew(s, i)}

\* the number of the members of P below i
Before(P, i) == Cardinality({j \in P : j < i})

\* the k-th member of P
NthPending(P, k) == CHOOSE i \in P : Before(P, i) = k - 1

\* r with the first n fields of P set to their encoding of s
PartialRegs(r, s, P, n) ==
    [ad \in DOMAIN r |->
        LET done == {i \in P : WriteSeq[i].addr = ad /\ Before(P, i) < n}
        IN IF done = {} THEN r[ad] ELSE WriteNew(s, CHOOSE i \in done : TRUE)]

\* the settings block of the registers r
SettingsBlock(r) == [k \in 1..ReadSettingsLen |-> r[SETTINGS_BASE + k - 1]]

\* C1: if validate rejects the candidate, write_settings returns the
\* validation error and makes no transport call (so no register write), and
\* the registers are what they were; a call that goes on to its writes has a
\* candidate that validate accepts.
C1_InvalidCandidateWritesNothing ==
    /\ (pc = "idle" /\ ret.op = "write_settings" /\ ~validate(settings).ok)
          => /\ ret = Err("write_settings", validate(settings).err)
             /\ tlog = <<>>
             /\ regs = regs0
    /\ (pc = "write_setting" /\ idx = 1) => validate(settings).ok

\* a rejected candidate one of whose valid fields differs from the device
C1_Witness ==
    /\ pc = "idle"
    /\ ret.op = "write_settings"
    /\ ~validate(settings).ok
    /\ regs[WriteSeq[3].addr] # WriteNew(settings, 3)

\* C2: for a candidate that passes validation, over a transport that never
\* fails and returns the number of registers asked for, write_settings
\* returns Ok, and the register of every field (0xE000 to 0xE038) then holds
\* the candidate's encoding.
C2_ValidCandidateIsWritten ==
    (RanThrough /\ validate(settings).ok)
        => /\ ret.status = "ok"
           /\ PendingFields(regs, settings) = {}

\* C3: the block write_settings reads is the block read_settings reads, the
\* 57 registers 0xE000 to 0xE038, so the register of every field compared is
\* at an index inside the block the length check accepted.
C3_RereadCoversEveryField ==
    pc = "write_setting"
        => /\ tlog[1].addr = SETTINGS_BASE
           /\ tlog[1].n = ReadSettingsLen
           /\ Len(cur) = 57
           /\ \A i \in 1..NFields : WriteSeq[i].addr - SETTINGS_BASE < Len(cur)

\* C4: when the settings block of the device equals the encoding of a valid
\* candidate, write_settings issues no register write.
C4_EqualBlockNoWrites ==
    (InCall /\ Writes # <<>>) => PendingFields(regs0, settings) # {}

\* a call that went through every field of a candidate equal to the device
C4_Witness ==
    /\ RanThrough
    /\ validate(settings).ok
    /\ PendingFields(regs0, settings) = {}
    /\ Writes = <<>>

\* C5: when the settings block differs from the encoding of a valid
\* candidate in exactly one field, whichever it is (the last one at 0xE038
\* too), write_settings issues exactly one register write, at that field's
\* address, with that field's encoding.
C5_OneDifferingFieldOneWrite ==
    (RanThrough /\ Cardinality(PendingFields(regs0, settings)) = 1)
        => \E i \in PendingFields(regs0, settings) :
              Writes = <<WriteCall(WriteSeq[i].addr, WriteNew(settings, i), "ok")>>

\* the index of the field f in the declaration order of Settings
FieldIndex(f) == CHOOSE i \in 1..NFields : SettingsFields[i] = f

\* the k-th register write is the write of a field: at its address, with its
\* encoding, which differs from its register in the block cur
WriteOfField(k, i) ==
    /\ Writes[k].addr = WriteSeq[i].addr
    /\ Writes[k].n = WriteNew(settings, i)
    /\ cur[WriteSeq[i].addr - SETTINGS_BASE + 1] # Writes[k].n

\* the k-th register write is of a field later in the declaration order, and
\* at a higher address, than the one before it
WriteAscends(k, i) ==
    k > 1 => /\ Writes[k - 1].addr < Writes[k].addr
             /\ \E j \in 1..NFields :
                   /\ WriteSeq[j].addr = Writes[k - 1].addr
                   /\ FieldIndex(WriteSeq[j].field) < FieldIndex(WriteSeq[i].field)

\* C6: within one write_settings call the register writes are in
\* field-declaration order (strictly ascending addresses), so at most one
\* per field, and a field is written only if its encoding differs from its
\* register in the block read at the start of the call.
C6_WritesAscendingOnlyChanged ==
    InCall => \A k \in 1..Len(Writes) :
                 \E i \in 1..NFields : WriteOfField(k, i) /\ WriteAscends(k, i)

\* a call that has written three fields, each differing from the block read
C6_Witness ==
    /\ InCall
    /\ Len(Writes) = 3
    /\ \A k \in 1..3 : Writes[k].got = 1

WriteFailed == "write_setting failed to write to register"

\* the register writes of the log the transport failed
FailedWrites == {k \in 1..Len(Writes) : Writes[k].got = -1}

\* the writes of the log are the first k of the pending fields P, in order
FirstPendingWritten(P, k) ==
    /\ k <= Cardinality(P)
    /\ \A j \in 1..k :
          /\ Writes[j].addr = WriteSeq[NthPending(P, j)].addr
          /\ Writes[j].n = WriteNew(settings, NthPending(P, j))

\* the failed write is the last transport call; the call has returned the
\* error; the registers are those at its start with the fields written
\* before the failure changed
StoppedAtFailure(P) ==
    /\ FailedWrites = {Len(Writes)}
    /\ tlog[Len(tlog)].got = -1
    /\ pc = "idle"
    /\ ret = Err("write_settings", WriteFailed)
    /\ FirstPendingWritten(P, Len(Writes))
    /\ regs = PartialRegs(regs0, settings, P, Len(Writes) - 1)

\* C7: if the transport fails on the k-th of the pending field writes of a
\* write_settings call, the call returns that error at once; the k-1 earlier
\* writes stay on the device, the failed field and the later ones are not
\* written, nothing is rolled back, and a read_settings that follows decodes
\* the first k-1 changes and the original values of the other fields.
C7_FailedWriteStopsNoRollback ==
    /\ (InCall /\ FailedWrites # {})
          => StoppedAtFailure(PendingFields(regs0, settings))
    /\ (ret.op = "read_settings" /\ ret.status = "ok" /\ wret.err = WriteFailed)
          => ret.value = DecodeSettings(SettingsBlock(
                PartialRegs(regs0, settings, PendingFields(regs0, settings),
                            Before(PendingFields(regs0, settings), idx))))

\* a read_settings after a call whose second pending write of three failed
C7_Witness ==
    /\ ret.op = "read_settings"
    /\ ret.status = "ok"
    /\ wret.err = WriteFailed
    /\ Cardinality(PendingFields(regs0, settings)) = 3
    /\ Before(PendingFields(regs0, settings), idx) = 1
    /\ regs # regs0

\* C8: stats makes one read of 81 registers from address 0 and read_settings
\* one read of the settings block (57 registers from 0xE000); if the
\* transport returns another number of registers than asked for, the
\* operation returns an error and no Stats or Settings value.
C8_OneReadCountChecked ==
    /\ ret.op = "stats"
          => /\ Len(tlog) = 1
             /\ tlog[1].op = "read_holding_registers"
             /\ tlog[1].addr = 0
             /\ tlog[1].n = 81
             /\ tlog[1].got # 81 => ret.status = "err" /\ ret.value = NoValue
    /\ ret.op = "read_settings"
          => /\ Len(tlog) = 1
             /\ tlog[1].op = "read_holding_registers"
             /\ tlog[1].addr = 57344
             /\ tlog[1].n = 57
             /\ tlog[1].got # 57 => ret.status = "err" /\ ret.value = NoValue

\* a stats call the transport answered with one register too many
C8_Witness ==
    /\ ret.op = "stats"
    /\ tlog[1].got = 82
    /\ ret.status = "err"

\* ------------------------------------------------------------------
\* Properties of the telemetry decode

\* C9: when the register at the RTS offset 0x001D holds an f16 NaN pattern,
\* stats gives rts_temperature None; for every other pattern it gives Some.
C9_NaNRtsIsNone ==
    (ret.op = "stats" /\ ret.status = "ok")
        => (ret.value.rts_temperature.some <=> ~IsNaN(F16ToF32(regs[29])))

\* C10: for ArrayFaults, LoadFaults (16 bits) and Alarms (32 bits), the bits
\* of the decoded set are the bits of the raw register value, the bits with no
\* named flag too.
C10_BitmaskKeepsEveryBit ==
    (ret.op = "stats" /\ ret.status = "ok")
        => /\ ret.value.array_faults = Bits16(regs[34])
           /\ ret.value.array_faults_daily = Bits16(regs[69])
           /\ ret.value.load_faults = Bits16(regs[47])
           /\ ret.value.load_faults_daily = Bits16(regs[70])
           /\ ret.value.alarms = gu32(regs[56], regs[57])
           /\ ret.value.alarms_daily = gu32(regs[71], regs[72])

\* ------------------------------------------------------------------
\* Properties of the decode of raw values

\* the named variants of ChargeState and LoadState, by code
ChargeStateNames == <<"Start", "NightCheck", "Disconnect", "Night", "Fault",
                      "BulkMPPT", "Absorption", "Float", "Equalize", "Slave", "Fixed">>
LoadStateNames == <<"Start", "Normal", "LVDWarning", "LVD", "Fault",
                    "Disconnect", "NormalOff", "Override", "NotUsed">>

\* the variant d is the one of the code r: the named one, or the fallback
\* that carries r
DecodesCode(d, r, names, fallback) ==
    IF r < Len(names)
    THEN d.variant = names[r + 1]
    ELSE d.variant = fallback /\ d.code = r

\* every u16 code decodes to the variant of the code, for both enumerations
EveryCodeDecodes ==
    \A r \in U16 :
        /\ DecodesCode(ChargeStateFrom(r), r, ChargeStateNames, "UnknownState")
        /\ DecodesCode(LoadStateFrom(r), r, LoadStateNames, "Unknown")

\* C11: ChargeState::from maps the codes 0..10 and LoadState::from the codes
\* 0..8 to their named variants, every other u16 to the fallback variant
\* (UnknownState, Unknown) that carries the code; no code fails: stats
\* returns its Stats whatever the state registers hold.
C11_EnumDecodeTotal ==
    /\ (ret.op = "stats" /\ tlog[1].got = StatsLen)
          => /\ ret.status = "ok"
             /\ DecodesCode(ret.value.charge_state, regs[33],
                            ChargeStateNames, "UnknownState")
             /\ DecodesCode(ret.value.load_state, regs[46],
                            LoadStateNames, "Unknown")
    /\ EveryCodeDecodes

\* a stats call over state registers that hold a code with no named variant
C11_Witness ==
    /\ ret.op = "stats"
    /\ ret.status = "ok"
    /\ regs[33] = 65535
    /\ ret.value.charge_state.variant = "UnknownState"
    /\ ret.value.load_state.variant = "Unknown"

\* the integer an f32 holds, for an f32 that is a whole number below 2^24
WholeOf(f) ==
    IF IsZero(f) THEN 0
    ELSE (IF f.s = 1 THEN -1 ELSE 1) * (Sig(f) \div Pow2(150 - f.e))

IsWhole(f) ==
    \/ IsZero(f)
    \/ /\ f.e >= 127
       /\ f.e <= 150
       /\ Sig(f) % Pow2(150 - f.e) = 0

\* the two's-complement reading of a u16
Signed16(r) == IF r < 32768 THEN r ELSE r - 65536

\* C12: the two battery temperature compensation limits (0xE01E, 0xE01F)
\* decode the register as a two's-complement i16: r below 0x8000 decodes to
\* r degrees Celsius and r from 0x8000 up to r - 65536 (0xFF00 to -256).
C12_TempLimitsSigned ==
    (ret.op = "read_settings" /\ ret.status = "ok")
        => /\ IsWhole(ret.value.max_battery_temp_compensation_limit)
           /\ IsWhole(ret.value.min_battery_temp_compensation_limit)
           /\ WholeOf(ret.value.max_battery_temp_compensation_limit)
                 = Signed16(regs[57374])
           /\ WholeOf(ret.value.min_battery_temp_compensation_limit)
                 = Signed16(regs[57375])

\* a read_settings over temperature limit registers that hold 0xFF00
C12_Witness ==
    /\ ret.op = "read_settings"
    /\ ret.status = "ok"
    /\ regs[57374] = 65280
    /\ WholeOf(ret.value.max_battery_temp_compensation_limit) = -256

\* ------------------------------------------------------------------
\* Properties of Settings::validate

\* the error texts of the checks of validate differ from field to field
TextsNameFields ==
    \A i \in 1..NChecks : \A j \in 1..NChecks :
        ValidateChecks[i].text = ValidateChecks[j].text => i = j

\* the candidate has the field of check i at a bound of the check
AtBound(i) ==
    \/ settings = WithField(i, ValidateChecks[i].min)
    \/ settings = WithField(i, ValidateChecks[i].max)

\* the candidate has the field of check i one unit outside a bound
OneOutside(i) ==
    \/ settings = WithField(i, OneBelow(ValidateChecks[i]))
    \/ settings = WithField(i, OneAbove(ValidateChecks[i]))

\* C13: for each range-checked field, a value at the minimum or the maximum
\* of the field passes validation, and a value one unit below the minimum
\* or above the maximum fails with the error text of that field.
C13_BoundsPassOutsideFails ==
    /\ TextsNameFields
    /\ ret.op = "validate"
          => \A i \in 1..NChecks :
                /\ AtBound(i) => ret.status = "ok"
                /\ OneOutside(i) => ret = Err("validate", ValidateChecks[i].text)

\* validate has rejected a candidate whose last field is one ampere above
\* its maximum
C13_Witness ==
    /\ ret.op = "validate"
    /\ ret.status = "err"
    /\ settings = WithField(NChecks, a(F32FromNat(41)))

\* the f32 x lies in the closed interval from lo to hi (a NaN lies in none)
F32Le(x, y) == ~IsNaN(x) /\ ~IsNaN(y) /\ ~F32Lt(y, x)

InInterval(s, ck) ==
    IF ck.kind = "u8"
    THEN ck.min <= s[ck.field] /\ s[ck.field] <= ck.max
    ELSE F32Le(ck.min, s[ck.field]) /\ F32Le(s[ck.field], ck.max)

\* the checks whose field is not in its interval
OutsideChecks(s) == {i \in 1..NChecks : ~InInterval(s, ValidateChecks[i])}

\* the first of them in the declaration order of the fields
FirstOutside(s) ==
    CHOOSE i \in OutsideChecks(s) :
        \A j \in OutsideChecks(s) :
            FieldIndex(ValidateChecks[i].field) <= FieldIndex(ValidateChecks[j].field)

\* C14: validate returns valid exactly when no field is outside its
\* interval; with several fields outside it reports the first of them in
\* field-declaration order, with the bounds of that field.
C14_ValidIffAllInside ==
    ret.op = "validate"
        => IF OutsideChecks(settings) = {}
           THEN ret.status = "ok"
           ELSE ret = Err("validate", ValidateChecks[FirstOutside(settings)].text)

\* ------------------------------------------------------------------
\* Properties of the settings codec

\* the quantity x is a whole number of k seconds (k = 60: minutes, 86400: days)
IsWholeOf(x, k) ==
    /\ ~IsNaN(x)
    /\ ~IsInf(x)
    /\ IsWhole(F32DivNat(x, k))
    /\ F32MulNat(F32DivNat(x, k), k) = x

\* the value x of a field of encoding enc is a whole number of the register unit
IsWholeInUnit(enc, x) ==
    CASE enc = "sec" -> IsWhole(x)
      [] enc = "mn" -> IsWholeOf(x, 60)
      [] enc = "dy" -> IsWholeOf(x, 86400)
      [] enc = "ic" -> IsWhole(x)
      [] enc = "u8" -> TRUE
      [] enc = "bool" -> TRUE
      [] OTHER -> FALSE

\* C15: for every integer-encoded settings field (seconds, minutes for
\* lvd_warning_timeout, days, degrees Celsius for the temperature limits,
\* modbus_id, meterbus_id, the boolean), a value that passes validation and
\* is a whole number of the register unit is reproduced exactly by decoding
\* its encoded register.
C15_IntegerFieldsRoundTrip ==
    (ret.op = "encode_decode" /\ validate(settings).ok)
        => \A i \in 1..NFields :
              IsWholeInUnit(WriteSeq[i].enc, settings[WriteSeq[i].field])
                 => ret.value[WriteSeq[i].field] = settings[WriteSeq[i].field]

\* the round trip of a valid candidate whose lvd_warning_timeout is 1092
\* minutes, the largest whole number of minutes validate accepts
C15_Witness ==
    /\ ret.op = "encode_decode"
    /\ validate(settings).ok
    /\ settings.lvd_warning_timeout = mn(F32FromNat(1092))
    /\ ret.value.lvd_warning_timeout = settings.lvd_warning_timeout

\* ------------------------------------------------------------------
\* Properties of every operation

\* the transport calls of the log that failed
FailedCalls == {k \in 1..Len(tlog) : tlog[k].got = -1}

\* the log of a write_settings call: nothing, or one read of the block and
\* then register writes at field addresses, no two at one address
BlockReadThenWrites ==
    \/ tlog = <<>>
    \/ /\ tlog[1].op = "read_holding_registers"
       /\ \A k \in 2..Len(tlog) :
             /\ tlog[k].op = "write_single_register"
             /\ \E i \in 1..NFields : WriteSeq[i].addr = tlog[k].addr
             /\ \A j \in 2..Len(tlog) : tlog[j].addr = tlog[k].addr => j = k

\* C16: no operation retries: stats, read_settings, read_coil and write_coil
\* make exactly one transport call each; write_settings makes at most one
\* block read and then at most one write per field; a transport call that
\* failed is the last call of its operation, which has returned the failure.
C16_NoRetry ==
    /\ ret.op \in {"stats", "read_settings", "read_coil", "write_coil"}
          => Len(tlog) = 1
    /\ InCall => BlockReadThenWrites
    /\ FailedCalls # {}
          => /\ FailedCalls = {Len(tlog)}
             /\ pc = "idle"
             /\ ret.status = "err"

\* a write_settings call whose second register write failed
C16_Witness ==
    /\ ret.op = "write_settings"
    /\ Len(tlog) = 3
    /\ FailedCalls = {3}

\* the context of the transport failure of each operation, as in the source
FailureContext ==
    [stats |-> "stats failed to read holding registers",
     read_settings |-> "read_settings failed to read registers",
     read_coil |-> "read coil failed",
     write_coil |-> "failed to write coil"]

\* the error of a failed register write tells the field at index i from
\* every other field
NamesField(err, i) ==
    \A j \in 1..NFields : j # i => err # WriteContext(WriteAddr(j))

\* C17: every transport failure is returned with a context that identifies
\* the operation in progress (telemetry read, settings read, coil access),
\* and, for a failed register write inside write_settings, the settings
\* field that was being written.
C17_FailureNamesOperation ==
    FailedCalls # {}
        => /\ ret.status = "err"
           /\ ret.op \in DOMAIN FailureContext => ret.err = FailureContext[ret.op]
           /\ (ret.op = "write_settings" /\ Len(tlog) = 1)
                 => ret.err = "write_settings failed to read current settings"
           /\ (ret.op = "write_settings" /\ Len(tlog) > 1) => NamesField(ret.err, idx)

\* no two coils at one address, every address in 0x0000..0x00FF
CoilAddressesDistinct ==
    \A c1 \in Coils :
        /\ address(c1) \in 0..255
        /\ \A c2 \in Coils : address(c1) = address(c2) => c1 = c2

\* C18: every Coil has a fixed address in 0x0000..0x00FF, no two the same;
\* write_coil(c, b) makes one single-bit write of b at c's address;
\* read_coil(c) makes one single-bit read at c's address and returns the bit
\* read, and fails if the transport returns another number of bits than one.
C18_CoilAccess ==
    /\ CoilAddressesDistinct
    /\ ret.op = "write_coil"
          => /\ Len(tlog) = 1
             /\ tlog[1].op = "write_single_coil"
             /\ tlog[1].addr = address(ret.coil)
             /\ tlog[1].n \in BOOLEAN
             /\ tlog[1].got = 1 => coils[address(ret.coil)] = tlog[1].n
    /\ ret.op = "read_coil"
          => /\ Len(tlog) = 1
             /\ tlog[1].op = "read_coils"
             /\ tlog[1].addr = address(ret.coil)
             /\ tlog[1].n = 1
             /\ tlog[1].got = 1 => ret = CoilOk("read_coil", ret.coil, coils[address(ret.coil)])
             /\ tlog[1].got # 1 => ret.status = "err" /\ ret.value = NoValue

\* a read of the last coil that returns the bit a write_coil set
C18_Witness ==
    /\ ret.op = "read_coil"
    /\ ret.coil = "ResetControl"
    /\ ret.status = "ok"
    /\ ret.value = TRUE
    /\ tlog[1].addr = 255

\* ------------------------------------------------------------------
\* The registers write_settings leaves alone

\* the registers bound to a Settings field
BoundAddrs == {WriteSeq[i].addr : i \in 1..NFields}

\* the registers of the block 0xE000..0xE038 bound to no field
UnboundInBlock ==
    {57355, 57356, 57358, 57359, 57361, 57362} \cup (57364..57369)
    \cup {57376, 57377} \cup (57384..57391)

UnboundAsListed == UnboundInBlock = (SETTINGS_BASE..SETTINGS_END) \ BoundAddrs

\* C19: write_settings writes only registers bound to a Settings field; the
\* unbound registers inside the block (0xE00B, 0xE00C, 0xE00E, 0xE00F,
\* 0xE011, 0xE012, 0xE014..0xE019, 0xE020, 0xE021, 0xE028..0xE02F) and every
\* register outside 0xE000..0xE038 keep their value through any call,
\* whether it succeeds or fails.
C19_UnboundRegistersUntouched ==
    /\ UnboundAsListed
    /\ \A k \in 1..Len(tlog) : IsWrite(tlog[k]) => tlog[k].addr \in BoundAddrs
    /\ \A ad \in UnboundInBlock \cup (DOMAIN regs \ (SETTINGS_BASE..SETTINGS_END)) :
          regs[ad] = BaseDevice[ad]

\* a write_settings call that changed a bound register and then failed
C19_Witness ==
    /\ pc = "idle"
    /\ ret.op = "write_settings"
    /\ ret.status = "err"
    /\ \E k \in 1..Len(tlog) : IsWrite(tlog[k]) /\ tlog[k].got = 1
    /\ \E ad \in BoundAddrs : regs[ad] # BaseDevice[ad]

\* ------------------------------------------------------------------
\* Properties of a read followed by a write of what was read

\* C20: re-encoding a decoded register gives the register back, for every
\* field and every raw value, so write_settings called with the unmodified
\* result of read_settings, when it passes validation and the device block
\* has not changed in between, issues no register write.
C20_RereadWritesNothing ==
    /\ (ret.op = "read_settings" /\ ret.status = "ok")
          => \A i \in 1..NFields : WriteNew(ret.value, i) = regs[WriteAddr(i)]
    /\ (InCall /\ validate(settings).ok) => Writes = <<>>

\* C21: every Settings value that read_settings decodes from a register
\* block passes Settings::validate (the validated interval of each field
\* contains every value its register can decode to), so a write_settings of
\* the unedited result of read_settings is never rejected by validation.
C21_DecodedSettingsValidate ==
    /\ (ret.op = "read_settings" /\ ret.status = "ok") => validate(ret.value).ok
    /\ InCall => validate(settings).ok

=============================================================================
